---- MODULE Spec2Model ----
(***************************************************************************)
(* Gophetch: the Bubble Tea model of src/main.go as a state machine.       *)
(*                                                                         *)
(* The update loop handles one message at a time (Model.Update).  The      *)
(* messages are tickMsg, sysInfoMsg, tea.KeyMsg and tea.WindowSizeMsg.     *)
(* Commands returned by a handler are kept as pending messages: ticks in   *)
(* tickPending, sysInfoMsg commands whose function is running or has run   *)
(* in sysReady, tea.Tick timers of 10 s that have not fired yet in         *)
(* sysTimers (a bag of due times).  A timer fires when the clock reaches   *)
(* its due time.                                                           *)
(*                                                                         *)
(* Time is in seconds.  A snapshot held by the cache or by a tab is        *)
(* abstracted to the instant at which its collector ran (asOf) and to      *)
(* whether the field that the cache tests against its zero value is zero   *)
(* (blank).  Collectors are taken to run in zero time, and a message that  *)
(* is on its way to the loop is handled before the clock advances again.   *)
(* A process snapshot also carries the length of its TopProcesses (top),   *)
(* which is the number of items of the list in the processes tab; of the   *)
(* list component only the selected index is kept (cursor).                *)
(*                                                                         *)
(* Before the program starts main hands the frame file to one of the two   *)
(* parsers.  A parser reads the file one run of lines at a time (rest is   *)
(* what is left to read, scan its local variables) and then returns        *)
(* (loaded).  The same parsers are also given as operators on whole files. *)
(* ticks is a history variable: the number of tickMsg handled so far,      *)
(* counted up to MaxTicks.  main computes the frame rate from the fps of   *)
(* the configuration before it loads the file, and starts the program      *)
(* with the frames of the file or, when the parser failed, with none.      *)
(* screen is what Model.View returned last.                                *)
(***************************************************************************)
EXTENDS Integers, Sequences, FiniteSets, Bags, TLC

VARIABLES
    config,        \* Model.config (the fields the update loop reads)
    frames,        \* Model.frames, a sequence of frame ids
    currentFrame,  \* Model.currentFrame
    width,         \* Model.width
    height,        \* Model.height
    sysInfo,       \* Model.sysInfo, an opaque value
    tabs,          \* TabManager.tabs, a sequence of tab names
    activeTab,     \* TabManager.activeTab
    tabData,       \* per tab, the snapshot stored in the tab's own field
    cache,         \* TabManager.cache, the DataCache
    now,           \* wall clock, in seconds
    tickPending,   \* number of tickMsg timers in flight
    sysReady,      \* number of sysInfoMsg on their way to the loop
    sysTimers,     \* bag of due times of the sysInfoMsg timers not yet fired
    status,        \* where the program is: "start", "load", "loaded" in main,
                   \* then "new", "running", "quit" or "panic"
    collected,     \* categories whose collector ran inside the last handler
    cursor,        \* per tab, the index selected in its processList (0 if none)
    file,          \* the frame file named on the command line or in the config
    rest,          \* the lines of the file that the scanner has not read yet
    scan,          \* the locals of the parser that is reading the file
    loaded,        \* what the parser returned for it: error and frames
    frameRate,     \* Model.frameRate, the time between two ticks, in ms
    rawText,       \* a string handed to processANSISequences
    stripped,      \* what processANSISequences returned for it
    screen,        \* what Model.View returned last
    ticks          \* history: tickMsg handled so far (stops counting at MaxTicks)

vars == <<config, frames, currentFrame, width, height, sysInfo, tabs,
          activeTab, tabData, cache, now, tickPending, sysReady, sysTimers,
          status, collected, cursor, file, rest, scan, loaded, ticks,
          frameRate, rawText, stripped, screen>>

----------------------------------------------------------------------------
(* Bounds of the model *)

MaxFrames == 3      \* longest frame sequence
MaxTime   == 40     \* the clock stops here
TimeStep  == 10     \* the clock advances in steps of this many seconds
MaxTicks  == 5      \* ticks counts up to here
MaxRuns   == 4      \* most runs of lines in a delimited file
MaxEvents == 3      \* most runs of events in a recording
MaxText   == 4      \* longest string handed to processANSISequences alone
SmallRun  == 2      \* a run up to this length is scanned line by line

(* Program constants *)

UpdateInterval  == 10    \* DataCache.updateInterval
WeatherInterval == 30    \* the literal in UpdateWeatherInfo
SysInfoPeriod   == 10    \* the tea.Tick period of the sysInfoMsg timers
ZeroTime        == 0 - 1000000   \* time.Time{}: lastUpdate before any refresh
MaxLineCount    == 100000   \* most lines a parser reads
MaxFrameCount   == 10000    \* most frames a parser returns
FrameInterval   == 100      \* frameInterval of the recording parser, in ms
MinContent      == 5        \* a frame needs more bytes than this once trimmed
Second          == 1000     \* the dividend of the frame rate: a second, in ms

Categories == {"network", "hardware", "processes", "weather"}

defaultOrder == <<"standard", "network", "hardware", "processes", "weather">>

----------------------------------------------------------------------------
(* Snapshots and the DataCache *)

ZeroInfo == [asOf |-> ZeroTime, blank |-> TRUE]

(* ProcessInfo{}: no TopProcesses *)
ZeroProcessInfo == [asOf |-> ZeroTime, blank |-> TRUE, top |-> 0]

NewDataCache ==
    [networkInfo  |-> ZeroInfo,
     hardwareInfo |-> ZeroInfo,
     processInfo  |-> ZeroProcessInfo,
     weatherInfo  |-> ZeroInfo,
     lastUpdate   |-> ZeroTime]

Since(t, last) == t - last

ShouldUpdate(c, t) == Since(t, c.lastUpdate) > UpdateInterval

(* The collectors.  GetNetworkInfo always returns a non-nil IPAddresses    *)
(* and GetWeatherInfo a non-empty Current; GetHardwareInfo can return an   *)
(* empty GPUInfo and GetProcessInfo a zero TotalProcesses (blank);         *)
(* getTopProcesses returns k entries.                                      *)
GetNetworkInfo(t)      == [asOf |-> t, blank |-> FALSE]
GetHardwareInfo(t, b)  == [asOf |-> t, blank |-> b]
GetProcessInfo(t, b, k) == [asOf |-> t, blank |-> b, top |-> k]
GetWeatherInfo(t)      == [asOf |-> t, blank |-> FALSE]

NetworkStale(c, t)  == ShouldUpdate(c, t) \/ c.networkInfo.blank
HardwareStale(c, t) == ShouldUpdate(c, t) \/ c.hardwareInfo.blank
ProcessStale(c, t)  == ShouldUpdate(c, t) \/ c.processInfo.blank
WeatherStale(c, t)  == Since(t, c.lastUpdate) > WeatherInterval \/ c.weatherInfo.blank

UpdateNetworkInfo(c, t) ==
    IF NetworkStale(c, t)
    THEN [c EXCEPT !.networkInfo = GetNetworkInfo(t), !.lastUpdate = t]
    ELSE c

UpdateHardwareInfo(c, t, b) ==
    IF HardwareStale(c, t)
    THEN [c EXCEPT !.hardwareInfo = GetHardwareInfo(t, b), !.lastUpdate = t]
    ELSE c

UpdateProcessInfo(c, t, b, k) ==
    IF ProcessStale(c, t)
    THEN [c EXCEPT !.processInfo = GetProcessInfo(t, b, k), !.lastUpdate = t]
    ELSE c

UpdateWeatherInfo(c, t) ==
    IF WeatherStale(c, t)
    THEN [c EXCEPT !.weatherInfo = GetWeatherInfo(t), !.lastUpdate = t]
    ELSE c

(* The refresh check of one category and the snapshot it guards *)
Stale(c, cat, t) ==
    CASE cat = "network"   -> NetworkStale(c, t)
      [] cat = "hardware"  -> HardwareStale(c, t)
      [] cat = "processes" -> ProcessStale(c, t)
      [] cat = "weather"   -> WeatherStale(c, t)

Snapshot(c, cat) ==
    CASE cat = "network"   -> c.networkInfo
      [] cat = "hardware"  -> c.hardwareInfo
      [] cat = "processes" -> c.processInfo
      [] cat = "weather"   -> c.weatherInfo

----------------------------------------------------------------------------
(* TabManager *)

contains(slice, item) == \E i \in 1..Len(slice) : slice[i] = item

Title(tab) ==
    CASE tab = "standard"  -> "Standard"
      [] tab = "network"   -> "Network"
      [] tab = "hardware"  -> "Hardware"
      [] tab = "processes" -> "Processes"
      [] tab = "weather"   -> "Weather"

KnownTab(name) == name \in {"standard"} \cup Categories

(* initializeTabs: the tab list, then the default active tab (0-based) *)
TabList(cfg) ==
    LET tabOrder    == IF Len(cfg.TabOrder) = 0 THEN defaultOrder ELSE cfg.TabOrder
        visibleTabs == IF Len(cfg.VisibleTabs) = 0 THEN defaultOrder ELSE cfg.VisibleTabs
    IN  SelectSeq(tabOrder, LAMBDA n : contains(visibleTabs, n) /\ KnownTab(n))

DefaultActive(cfg, tbs) ==
    LET hits == {i \in 1..Len(tbs) : Title(tbs[i]) = cfg.DefaultTab}
    IN  IF cfg.DefaultTab # "" /\ hits # {}
        THEN (CHOOSE i \in hits : \A j \in hits : i <= j) - 1
        ELSE 0

(* Go's % truncates toward zero *)
GoMod(a, b) == IF a >= 0 THEN a % b ELSE 0 - ((0 - a) % b)

NextTab(a, n) == GoMod(a + 1, n)

(* faulty variant of PrevTab: the length is not added before the remainder *)
PrevTab_NoWrap(a, n) == GoMod(a - 1, n)

PrevTab(a, n) == GoMod(a - 1 + n, n)

(* faulty variants of SwitchTab: no range check; the upper bound is off   *)
(* by one                                                                  *)
SwitchTab_Unchecked(a, index, n) == index

SwitchTab_OffByOne(a, index, n) == IF index >= 0 /\ index <= n THEN index ELSE a

SwitchTab(a, index, n) == IF index >= 0 /\ index < n THEN index ELSE a

(* Tab.Init returns a command for every tab but the standard one *)
TabInitCmds(tbs) == Cardinality({i \in 1..Len(tbs) : tbs[i] # "standard"})

(* faulty variant of TabUpdate: the network tab asks the collector itself  *)
(* and leaves the cache alone                                              *)
TabUpdate_BypassesCache(st, i, tab, t, hb, pb, pk) ==
    LET c == st.cache IN
    CASE tab = "standard" -> st
      [] tab = "network" ->
           [cache |-> c,
            data  |-> [st.data EXCEPT ![i] = GetNetworkInfo(t)],
            ran   |-> st.ran \cup {"network"}]
      [] tab = "hardware" ->
           LET c2 == UpdateHardwareInfo(c, t, hb) IN
           [cache |-> c2,
            data  |-> [st.data EXCEPT ![i] = c2.hardwareInfo],
            ran   |-> IF HardwareStale(c, t) THEN st.ran \cup {"hardware"} ELSE st.ran]
      [] tab = "processes" ->
           LET c2 == UpdateProcessInfo(c, t, pb, pk) IN
           [cache |-> c2,
            data  |-> [st.data EXCEPT ![i] = c2.processInfo],
            ran   |-> IF ProcessStale(c, t) THEN st.ran \cup {"processes"} ELSE st.ran]
      [] tab = "weather" ->
           LET c2 == UpdateWeatherInfo(c, t) IN
           [cache |-> c2,
            data  |-> [st.data EXCEPT ![i] = c2.weatherInfo],
            ran   |-> IF WeatherStale(c, t) THEN st.ran \cup {"weather"} ELSE st.ran]

(* Tab.Update on a sysInfoMsg, for the tab at position i *)
TabUpdate(st, i, tab, t, hb, pb, pk) ==
    LET c == st.cache IN
    CASE tab = "standard" -> st
      [] tab = "network" ->
           LET c2 == UpdateNetworkInfo(c, t) IN
           [cache |-> c2,
            data  |-> [st.data EXCEPT ![i] = c2.networkInfo],
            ran   |-> IF NetworkStale(c, t) THEN st.ran \cup {"network"} ELSE st.ran]
      [] tab = "hardware" ->
           LET c2 == UpdateHardwareInfo(c, t, hb) IN
           [cache |-> c2,
            data  |-> [st.data EXCEPT ![i] = c2.hardwareInfo],
            ran   |-> IF HardwareStale(c, t) THEN st.ran \cup {"hardware"} ELSE st.ran]
      [] tab = "processes" ->
           LET c2 == UpdateProcessInfo(c, t, pb, pk) IN
           [cache |-> c2,
            data  |-> [st.data EXCEPT ![i] = c2.processInfo],
            ran   |-> IF ProcessStale(c, t) THEN st.ran \cup {"processes"} ELSE st.ran]
      [] tab = "weather" ->
           LET c2 == UpdateWeatherInfo(c, t) IN
           [cache |-> c2,
            data  |-> [st.data EXCEPT ![i] = c2.weatherInfo],
            ran   |-> IF WeatherStale(c, t) THEN st.ran \cup {"weather"} ELSE st.ran]

(* TabManager.Update: every tab in list order *)
RECURSIVE TabManagerUpdate(_, _, _, _, _, _, _)
TabManagerUpdate(st, i, tbs, t, hb, pb, pk) ==
    IF i > Len(tbs) THEN st
    ELSE TabManagerUpdate(TabUpdate(st, i, tbs[i], t, hb, pb, pk), i + 1, tbs, t,
                          hb, pb, pk)

----------------------------------------------------------------------------
(* Playback *)

(* faulty variants of TickFrame: the non-looping branch wraps; the looping *)
(* branch freezes; the non-looping branch runs past the last frame        *)
TickFrame_AlwaysWraps(cur, n, loop) ==
    IF n > 0 THEN (cur + 1) % n ELSE cur

TickFrame_NeverWraps(cur, n, loop) ==
    IF n > 0
    THEN IF cur < n - 1 THEN cur + 1 ELSE cur
    ELSE cur

TickFrame_Overruns(cur, n, loop) ==
    IF n > 0
    THEN IF loop THEN (cur + 1) % n ELSE cur + 1
    ELSE cur

(* the tickMsg branch of Model.Update: the frame index after one tick *)
TickFrame(cur, n, loop) ==
    IF n > 0
    THEN IF loop THEN (cur + 1) % n
         ELSE IF cur < n - 1 THEN cur + 1 ELSE cur
    ELSE cur

(* faulty variant of TickCmds: static mode keeps ticking *)
TickCmds_KeepsTicking(static) == 1

(* faulty variant of TickCmds: every tick schedules two *)
TickCmds_Doubles(static) == 2

(* the command a tick returns: one more tick unless in static mode *)
TickCmds(static) == IF static THEN 0 ELSE 1

(* the animation panel of renderTabbedView / renderOriginalView *)
AnimationPanel(frs, cur, static) ==
    IF Len(frs) > 0
    THEN IF cur < Len(frs) THEN <<"frame", frs[cur + 1]>> ELSE <<"frame", frs[1]>>
    ELSE <<"rain", ~static>>

----------------------------------------------------------------------------
(* Frame files: the delimited format *)

(* A file is kept as a sequence of runs: the lines of unit, repeated n     *)
(* times.  A text (the content of a frame, the strings.Builder) is a       *)
(* sequence of [line, n]: n copies of line, each followed by a newline.    *)
(* A frame list is a sequence of [content, color, n]: n equal frames.      *)

FrameSentinel == "---FRAME---"

(* the colour names of the sentinel lines of the model: the ten of the    *)
(* table, two of them also in lower and in mixed case, and one that the    *)
(* table does not have                                                     *)
KnownColors == {"RED", "GREEN", "BLUE", "YELLOW", "CYAN", "MAGENTA", "WHITE",
                "BRIGHTBLUE", "BRIGHTGREEN", "BRIGHTRED"}

ColorNames == KnownColors \cup {"red", "BrightBlue", "PINK"}

ColorSentinel(name) == "---FRAME:" \o name \o "---"

(* strings.HasPrefix(line, "---FRAME:") *)
HasFramePrefix(line) == line \in {ColorSentinel(name) : name \in ColorNames}

DefaultColor == "252"

(* strings.TrimSuffix(strings.Split(line, ":")[1], "---") *)
ColorName(line) == CHOOSE name \in ColorNames : ColorSentinel(name) = line

(* strings.ToUpper *)
ToUpper(name) ==
    CASE name = "red"        -> "RED"
      [] name = "BrightBlue" -> "BRIGHTBLUE"
      [] OTHER               -> name

(* the switch of extractColor *)
ColorCode(name) ==
    CASE name = "RED"         -> "196"
      [] name = "GREEN"       -> "82"
      [] name = "BLUE"        -> "39"
      [] name = "YELLOW"      -> "226"
      [] name = "CYAN"        -> "86"
      [] name = "MAGENTA"     -> "213"
      [] name = "WHITE"       -> "252"
      [] name = "BRIGHTBLUE"  -> "75"
      [] name = "BRIGHTGREEN" -> "118"
      [] name = "BRIGHTRED"   -> "203"
      [] OTHER                -> DefaultColor

(* faulty variant of extractColor: the name is matched as it is written *)
extractColor_CaseSensitive(line) == ColorCode(ColorName(line))

extractColor(line) == ColorCode(ToUpper(ColorName(line)))

(* Builder.WriteString(line + "\n"), n times *)
AppendLines(text, line, n) ==
    IF n = 0 THEN text
    ELSE IF Len(text) > 0 /\ text[Len(text)].line = line
    THEN [text EXCEPT ![Len(text)].n = @ + n]
    ELSE Append(text, [line |-> line, n |-> n])

(* frames = append(frames, Frame{Content, Color}), n times *)
AppendFrame(frs, content, color, n) ==
    IF n = 0 THEN frs
    ELSE IF Len(frs) > 0 /\ frs[Len(frs)].content = content
                         /\ frs[Len(frs)].color = color
    THEN [frs EXCEPT ![Len(frs)].n = @ + n]
    ELSE Append(frs, [content |-> content, color |-> color, n |-> n])

(* len(frames) *)
RECURSIVE NumLoaded(_)
NumLoaded(frs) == IF Len(frs) = 0 THEN 0 ELSE frs[1].n + NumLoaded(Tail(frs))

NoError      == "none"
ErrLines     == "file too large (more than 100,000 lines)"
ErrNoFrames  == "no frames found"
ErrHeader    == "invalid .cast file header"

(* the checks both parsers make before the file is opened *)
StatError(stat) ==
    CASE stat = "missing"   -> "cannot access file"
      [] stat = "directory" -> "is a directory, not a file"
      [] stat = "empty"     -> "file is empty"
      [] stat = "oversize"  -> "file is too large (>50MB)"
      [] OTHER              -> NoError

(* a parser as a whole: the checks, then the scan and what follows it *)
Checked(stat, res) ==
    IF StatError(stat) # NoError THEN [err |-> StatError(stat), frames |-> <<>>]
    ELSE res

(* return nil, err *)
Failed(msg) == [frames |-> <<>>, cur |-> <<>>, last |-> 0, lineCount |-> 0, err |-> msg]

ScanStart == [frames |-> <<>>, cur |-> <<>>, last |-> 0, lineCount |-> 0, err |-> NoError]

(* the branch of the scan loop that a line takes *)
FlushOrAppend(st, line) ==
    IF line = FrameSentinel
    THEN IF Len(st.cur) > 0
         THEN [st EXCEPT !.frames = AppendFrame(@, st.cur, DefaultColor, 1), !.cur = <<>>]
         ELSE st
    ELSE IF HasFramePrefix(line)
    THEN IF Len(st.cur) > 0
         THEN [st EXCEPT !.frames = AppendFrame(@, st.cur, extractColor(line), 1),
                         !.cur = <<>>]
         ELSE st
    ELSE [st EXCEPT !.cur = AppendLines(@, line, 1)]

(* faulty variant of ScanLine: the line count is tested before the line    *)
(* is counted, so the limit is reached one line late                       *)
ScanLine_LateLimit(st, line) ==
    LET s1 == [FlushOrAppend(st, line) EXCEPT !.lineCount = st.lineCount + 1]
    IN  IF st.err # NoError THEN st
        ELSE IF st.lineCount > MaxLineCount THEN Failed(ErrLines)
        ELSE s1

(* one iteration of the scan loop of LoadFramesFromFile: the line is       *)
(* counted and handled, then the count is tested                           *)
ScanLine(st, line) ==
    LET s1 == [FlushOrAppend(st, line) EXCEPT !.lineCount = st.lineCount + 1]
    IN  IF st.err # NoError THEN st
        ELSE IF s1.lineCount > MaxLineCount THEN Failed(ErrLines)
        ELSE s1

RECURSIVE ScanLines(_, _)
ScanLines(st, lines) ==
    IF Len(lines) = 0 THEN st ELSE ScanLines(ScanLine(st, lines[1]), Tail(lines))

(* the scan loop over n repetitions of unit, one line at a time *)
RECURSIVE ScanRepeat(_, _, _)
ScanRepeat(st, unit, n) ==
    IF n = 0 THEN st ELSE ScanRepeat(ScanLines(st, unit), unit, n - 1)

(* the same in one step, for a unit that is a content line, a sentinel     *)
(* line or a content line followed by the plain sentinel: after the first  *)
(* repetition every further one adds a line to the buffer, or nothing, or  *)
(* one more one-line frame                                                 *)
ScanMany(st, unit, n) ==
    LET s1 == ScanLines(st, unit)
        k  == n - 1
        s2 == IF Len(unit) = 2
              THEN [s1 EXCEPT !.frames = AppendFrame(@, AppendLines(<<>>, unit[1], 1),
                                                     DefaultColor, k)]
              ELSE IF unit[1] = FrameSentinel \/ HasFramePrefix(unit[1]) THEN s1
              ELSE [s1 EXCEPT !.cur = AppendLines(@, unit[1], k)]
    IN  IF st.err # NoError THEN st
        ELSE IF st.lineCount + n * Len(unit) > MaxLineCount THEN Failed(ErrLines)
        ELSE [s2 EXCEPT !.lineCount = st.lineCount + n * Len(unit)]

ScanRun(st, run) ==
    IF run.n <= SmallRun THEN ScanRepeat(st, run.unit, run.n)
    ELSE ScanMany(st, run.unit, run.n)

RECURSIVE ScanRuns(_, _)
ScanRuns(st, runs) ==
    IF Len(runs) = 0 THEN st ELSE ScanRuns(ScanRun(st, runs[1]), Tail(runs))

(* what follows the loop in both parsers: no frame, or too many *)
CheckFrames(frs) ==
    IF NumLoaded(frs) = 0 THEN [err |-> ErrNoFrames, frames |-> <<>>]
    ELSE IF NumLoaded(frs) > MaxFrameCount
    THEN [err |-> "too many frames (more than 10,000)", frames |-> <<>>]
    ELSE [err |-> NoError, frames |-> frs]

(* faulty variant of FileReturn: the buffer left at the end of the file   *)
(* is dropped                                                              *)
FileReturn_NoFinalFlush(st) ==
    IF st.err # NoError THEN [err |-> st.err, frames |-> <<>>]
    ELSE CheckFrames(st.frames)

(* LoadFramesFromFile after the loop: the last buffer, then the checks *)
FileReturn(st) ==
    LET frs == IF Len(st.cur) > 0 THEN AppendFrame(st.frames, st.cur, DefaultColor, 1)
               ELSE st.frames
    IN  IF st.err # NoError THEN [err |-> st.err, frames |-> <<>>]
        ELSE CheckFrames(frs)

(* LoadFramesFromFile, from the scan loop to the return *)
LoadFramesFromFile(runs) == FileReturn(ScanRuns(ScanStart, runs))

----------------------------------------------------------------------------
(* Frame files: asciinema recordings *)

(* A string is a sequence of characters.  ESC is \x1b and BEL is \x07;    *)
(* BOX stands for a box-drawing character, three bytes long in UTF-8.      *)

ESC == "ESC"
BEL == "BEL"
BOX == "BOX"

Digits  == {"0", "1", "2", "3", "4", "5", "6", "7", "8", "9"}
Letters == {"a", "b", "c", "d", "e", "f", "g", "h", "i", "j", "k", "l", "m",
            "n", "o", "p", "q", "r", "s", "t", "u", "v", "w", "x", "y", "z",
            "A", "B", "C", "D", "E", "F", "G", "H", "I", "J", "K", "L", "M",
            "N", "O", "P", "Q", "R", "S", "T", "U", "V", "W", "X", "Y", "Z"}
Spaces  == {" ", "NL", "TAB", "CR"}

(* the first index from i on whose character is outside class, or Len+1 *)
RECURSIVE SkipClass(_, _, _)
SkipClass(s, i, class) ==
    IF i <= Len(s) /\ s[i] \in class THEN SkipClass(s, i + 1, class) ELSE i

(* the first index from i on whose character is c, or 0 *)
RECURSIVE IndexFrom(_, _, _)
IndexFrom(s, i, c) ==
    IF i > Len(s) THEN 0 ELSE IF s[i] = c THEN i ELSE IndexFrom(s, i + 1, c)

(* the end of a match of  \x1b\[ params* final  that starts at i, or 0.    *)
(* No parameter character is a final character, so the greedy run of       *)
(* parameters is the only candidate.                                       *)
MatchCSI(s, i, params, finals) ==
    IF i + 1 <= Len(s) /\ s[i] = ESC /\ s[i + 1] = "["
    THEN LET j == SkipClass(s, i + 2, params)
         IN  IF j <= Len(s) /\ s[j] \in finals THEN j ELSE 0
    ELSE 0

(* the end of a match of  \x1b\][0-9]*;[^\x07]*\x07  that starts at i *)
MatchOSC(s, i) ==
    IF i + 1 <= Len(s) /\ s[i] = ESC /\ s[i + 1] = "]"
    THEN LET j == SkipClass(s, i + 2, Digits)
         IN  IF j <= Len(s) /\ s[j] = ";" THEN IndexFrom(s, j + 1, BEL) ELSE 0
    ELSE 0

(* Regexp.ReplaceAllString(s, ""): the matches, leftmost first and not     *)
(* overlapping, are cut out                                                *)
RECURSIVE ReplaceCSI(_, _, _, _)
ReplaceCSI(s, i, params, finals) ==
    IF i > Len(s) THEN <<>>
    ELSE LET e == MatchCSI(s, i, params, finals)
         IN  IF e > 0 THEN ReplaceCSI(s, e + 1, params, finals)
             ELSE <<s[i]>> \o ReplaceCSI(s, i + 1, params, finals)

RECURSIVE ReplaceOSC(_, _)
ReplaceOSC(s, i) ==
    IF i > Len(s) THEN <<>>
    ELSE LET e == MatchOSC(s, i)
         IN  IF e > 0 THEN ReplaceOSC(s, e + 1)
             ELSE <<s[i]>> \o ReplaceOSC(s, i + 1)

(* strings.ReplaceAll(s, "\u001b[", "") *)
RECURSIVE ReplaceIntro(_, _)
ReplaceIntro(s, i) ==
    IF i > Len(s) THEN <<>>
    ELSE IF i + 1 <= Len(s) /\ s[i] = ESC /\ s[i + 1] = "["
    THEN ReplaceIntro(s, i + 2)
    ELSE <<s[i]>> \o ReplaceIntro(s, i + 1)

ansiColor       == [params |-> Digits \cup {";"}, finals |-> {"m"}]
ansiCursor      == [params |-> Digits,
                    finals |-> {"A", "B", "C", "D", "F", "G", "H", "K"}]
ansiClear       == [params |-> Digits, finals |-> {"J", "K"}]
ansiComplex     == [params |-> Digits \cup {";", "?"},
                    finals |-> {"h", "l", "n", "p", "q", "r"}]
ansiPrivate     == [params |-> Digits \cup {";", "?"}, finals |-> Letters]
ansiDevice      == [params |-> Digits, finals |-> {"n"}]
ansiApplication == [params |-> Digits \cup {";", "?"}, finals |-> {"h", "l"}]

Replace(s, re) == ReplaceCSI(s, 1, re.params, re.finals)

processANSISequences(content) ==
    LET r1 == Replace(content, ansiColor)
        r2 == Replace(r1, ansiCursor)
        r3 == Replace(r2, ansiClear)
        r4 == Replace(r3, ansiComplex)
        r5 == ReplaceOSC(r4, 1)
        r6 == Replace(r5, ansiPrivate)
        r7 == Replace(r6, ansiDevice)
        r8 == Replace(r7, ansiApplication)
        r9 == ReplaceIntro(r8, 1)
    IN  SelectSeq(r9, LAMBDA c : c # BEL)

(* strings.TrimSpace *)
RECURSIVE TrimLeft(_)
TrimLeft(s) == IF Len(s) > 0 /\ s[1] \in Spaces THEN TrimLeft(Tail(s)) ELSE s

RECURSIVE TrimRight(_)
TrimRight(s) ==
    IF Len(s) > 0 /\ s[Len(s)] \in Spaces THEN TrimRight(SubSeq(s, 1, Len(s) - 1))
    ELSE s

TrimSpace(s) == TrimRight(TrimLeft(s))

(* len(s): the number of bytes *)
RECURSIVE ByteLen(_)
ByteLen(s) ==
    IF Len(s) = 0 THEN 0
    ELSE (IF s[1] = BOX THEN 3 ELSE 1) + ByteLen(Tail(s))

(* the buffer becomes a frame if enough is left of it after stripping *)
EmitFrame(frs, content) ==
    LET processed == processANSISequences(content)
    IN  IF ByteLen(TrimSpace(processed)) > MinContent
        THEN AppendFrame(frs, processed, DefaultColor, 1)
        ELSE frs

(* timestamp-lastTimestamp >= frameInterval, in float64.  The timestamps  *)
(* of the model are in ms and the parser holds them as float64 seconds:    *)
(* two timestamps that are 100 ms apart as written in the file can differ  *)
(* by less than the float64 0.1, and of those of the model 0.3 and 0.2 do  *)
(* (0.3 - 0.2 is 0.09999999999999998).                                     *)
IntervalReached(ts, last) ==
    ts - last >= FrameInterval /\ <<ts, last>> \notin { <<300, 200>> }

(* the event is an output event: its text is added, and a frame is cut     *)
(* when enough time has passed since the last cut                          *)
OutputEvent(st, ev) ==
    LET cur1 == st.cur \o ev.data
    IN  IF IntervalReached(ev.ts, st.last)
        THEN [st EXCEPT !.frames = IF Len(cur1) > 0 THEN EmitFrame(@, cur1) ELSE @,
                        !.cur = <<>>,
                        !.last = ev.ts]
        ELSE [st EXCEPT !.cur = cur1]

(* faulty variant of ScanEvent: the kind of the event is not looked at *)
ScanEvent_AnyKind(st, ev) ==
    LET s1 == [OutputEvent(st, ev) EXCEPT !.lineCount = st.lineCount + 1]
    IN  IF st.err # NoError THEN st
        ELSE IF ev.kind \in {"junk", "short"} THEN [st EXCEPT !.lineCount = @ + 1]
        ELSE IF s1.lineCount > MaxLineCount THEN Failed(ErrLines)
        ELSE s1

(* one iteration of the event loop of LoadFramesFromCastFile.  A line      *)
(* that is not a three-element record, or whose kind is not "o", leaves    *)
(* the loop body through continue, before the line count is tested.        *)
ScanEvent(st, ev) ==
    LET s1 == [OutputEvent(st, ev) EXCEPT !.lineCount = st.lineCount + 1]
    IN  IF st.err # NoError THEN st
        ELSE IF ev.kind # "o" THEN [st EXCEPT !.lineCount = @ + 1]
        ELSE IF s1.lineCount > MaxLineCount THEN Failed(ErrLines)
        ELSE s1

RECURSIVE ScanEventRepeat(_, _, _)
ScanEventRepeat(st, ev, n) ==
    IF n = 0 THEN st ELSE ScanEventRepeat(ScanEvent(st, ev), ev, n - 1)

(* n times the same event in one step, for an event that is not an output  *)
(* event or has no text: after the first one no time has passed since the  *)
(* last cut, so the others only count                                      *)
ScanEventMany(st, ev, n) ==
    LET s1 == ScanEvent(st, ev)
    IN  IF st.err # NoError \/ s1.err # NoError THEN s1
        ELSE IF ev.kind = "o" /\ st.lineCount + n > MaxLineCount THEN Failed(ErrLines)
        ELSE [s1 EXCEPT !.lineCount = st.lineCount + n]

ScanEventRun(st, run) ==
    IF run.n <= SmallRun THEN ScanEventRepeat(st, run.ev, run.n)
    ELSE ScanEventMany(st, run.ev, run.n)

RECURSIVE ScanEvents(_, _)
ScanEvents(st, runs) ==
    IF Len(runs) = 0 THEN st ELSE ScanEvents(ScanEventRun(st, runs[1]), Tail(runs))

(* faulty variant of CastReturn: an empty frame list is returned as a     *)
(* success                                                                 *)
CastReturn_AllowsEmpty(header, st) ==
    LET frs == IF Len(st.cur) > 0 THEN EmitFrame(st.frames, st.cur) ELSE st.frames
    IN  IF header # "ok" THEN [err |-> ErrHeader, frames |-> <<>>]
        ELSE IF st.err # NoError THEN [err |-> st.err, frames |-> <<>>]
        ELSE [err |-> NoError, frames |-> frs]

(* LoadFramesFromCastFile outside the loop: the header before it, the     *)
(* last buffer and the checks after it                                     *)
CastReturn(header, st) ==
    LET frs == IF Len(st.cur) > 0 THEN EmitFrame(st.frames, st.cur) ELSE st.frames
    IN  IF header # "ok" THEN [err |-> ErrHeader, frames |-> <<>>]
        ELSE IF st.err # NoError THEN [err |-> st.err, frames |-> <<>>]
        ELSE CheckFrames(frs)

(* LoadFramesFromCastFile, from the header line to the return *)
LoadFramesFromCastFile(header, runs) == CastReturn(header, ScanEvents(ScanStart, runs))

----------------------------------------------------------------------------
(* Configurations and the initial state *)

NoTabs == [EnableTabs |-> FALSE, TabOrder |-> <<>>, VisibleTabs |-> <<>>,
           DefaultTab |-> "standard"]

(* getDefaultConfig: all five tabs *)
AllTabs == [EnableTabs |-> TRUE, TabOrder |-> defaultOrder,
            VisibleTabs |-> defaultOrder, DefaultTab |-> "standard"]

(* getDefaultConfig: FPS *)
DefaultFPS == 5

(* main: time.Duration(1000/config.FPS) * time.Millisecond, for an FPS     *)
(* that is not 0; Go's / on integers truncates toward zero                 *)
FrameRateOf(fps) == IF fps > 0 THEN Second \div fps ELSE 0 - (Second \div (0 - fps))

MkConfig(loop, static, t) ==
    [LoopAnimation |-> loop, StaticMode |-> static, EnableTabs |-> t.EnableTabs,
     TabOrder |-> t.TabOrder, VisibleTabs |-> t.VisibleTabs, DefaultTab |-> t.DefaultTab,
     FPS |-> DefaultFPS]

FrameSeq(n) == [i \in 1..n |-> i]

(* the files of the model *)
RunOf(u, k) == [unit |-> u, n |-> k]

LineUnits == { <<"a">>, <<"b">>, <<"">>, <<FrameSentinel>>, <<"---FRAME:RED---">>,
               <<"a", FrameSentinel>> }

SeqsUpTo(S, lo, hi) == UNION {[1..k -> S] : k \in lo..hi}

Coloured == <<ESC, "[", "3", "1", "m">> \o <<"h", "e", "l", "l", "o", "!">>

EventOf(k, t, d) == [kind |-> k, ts |-> t, data |-> d]

EventRun(e, k) == [ev |-> e, n |-> k]

(* output events, an input event, a line that is not JSON and a record of  *)
(* two elements; the long runs are of lines that carry no text             *)
CastRuns ==
    {EventRun(EventOf("o", t, Coloured), 1) : t \in {50, 100, 200, 300}}
    \cup {EventRun(EventOf("o", t, <<ESC, "[", "2", "J", "h", "i", " ">>), 1) :
             t \in {50, 100}}
    \cup {EventRun(EventOf("o", 100, <<BOX, BOX>>), 1),
          EventRun(EventOf("i", 100, Coloured), 1),
          EventRun(EventOf("junk", 0, <<>>), 1),
          EventRun(EventOf("short", 0, <<>>), 1)}
    \cup {EventRun(EventOf("o", 300, <<>>), MaxLineCount - 1),
          EventRun(EventOf("i", 100, Coloured), MaxLineCount - 1),
          EventRun(EventOf("junk", 0, <<>>), MaxLineCount - 1)}

(* config.FrameFile = "default": nothing is loaded *)
NoFile == [format |-> "none", stat |-> "ok", header |-> "none", runs |-> <<>>]

DelimFile(r) == [format |-> "frames", stat |-> "ok", header |-> "none", runs |-> r]

CastFile(h, r) == [format |-> "cast", stat |-> "ok", header |-> h, runs |-> r]

(* the files handed to the two parsers: delimited files of single lines    *)
(* and of the long runs that reach the two limits, and recordings          *)
LoadFiles ==
    {DelimFile(r) :
        r \in SeqsUpTo({RunOf(u, 1) : u \in LineUnits}
                       \cup {RunOf(<<"a">>, MaxLineCount - 1),
                             RunOf(<<FrameSentinel>>, MaxLineCount - 1),
                             RunOf(<<"a", FrameSentinel>>, MaxFrameCount - 1)},
                       1, MaxRuns)}
    \cup {CastFile(h, r) : h \in {"ok", "bad"}, r \in SeqsUpTo(CastRuns, 0, MaxEvents)}

(* delimited files of content lines, plain sentinels and the sentinel of  *)
(* one colour name                                                         *)
ColorFiles ==
    UNION {{DelimFile(r) :
               r \in SeqsUpTo({RunOf(<<"a">>, 1), RunOf(<<FrameSentinel>>, 1),
                               RunOf(<<ColorSentinel(name)>>, 1)}, 1, MaxRuns)} :
           name \in ColorNames}

(* the files of a start of the program: none; unreadable ones; delimited   *)
(* files of one and two frames, of no frame, of too many lines and of too  *)
(* many frames; recordings with a bad header, of no frame and of too many  *)
(* lines                                                                   *)
StartFiles ==
    {NoFile}
    \cup {[format |-> f, stat |-> st, header |-> "ok", runs |-> <<>>] :
             f \in {"frames", "cast"},
             st \in {"missing", "directory", "empty", "oversize"}}
    \cup {DelimFile(<<RunOf(<<"a">>, 1)>>),
          DelimFile(<<RunOf(<<"a">>, 1), RunOf(<<FrameSentinel>>, 1), RunOf(<<"b">>, 1)>>),
          DelimFile(<<RunOf(<<FrameSentinel>>, 1)>>),
          DelimFile(<<RunOf(<<"a">>, MaxLineCount - 1), RunOf(<<"a">>, 2)>>),
          DelimFile(<<RunOf(<<"a", FrameSentinel>>, MaxFrameCount - 1),
                      RunOf(<<"a", FrameSentinel>>, 2)>>)}
    \cup {CastFile("bad", <<>>),
          CastFile("ok", <<EventRun(EventOf("i", 100, Coloured), 1)>>),
          CastFile("ok", <<EventRun(EventOf("o", 300, <<>>), MaxLineCount - 1),
                           EventRun(EventOf("o", 300, <<>>), 2)>>)}

NotLoaded == [done |-> FALSE, err |-> NoError, frames |-> <<>>]

Loaded(res) == [done |-> TRUE, err |-> res.err, frames |-> res.frames]

(* View has not been called *)
NoScreen == <<"none">>

(* main: the model handed to tea.NewProgram *)
InitWith(cfgs, counts) ==
    /\ config \in cfgs
    /\ \E n \in counts : frames = FrameSeq(n)
    /\ currentFrame = 0
    /\ width = 0
    /\ height = 0
    /\ sysInfo = 1
    /\ tabs = IF config.EnableTabs THEN TabList(config) ELSE <<>>
    /\ activeTab = IF config.EnableTabs THEN DefaultActive(config, TabList(config)) ELSE 0
    /\ tabData = [i \in 1..Len(tabs) |->
                     IF tabs[i] = "processes" THEN ZeroProcessInfo ELSE ZeroInfo]
    /\ cursor = [i \in 1..Len(tabs) |-> 0]
    /\ cache = NewDataCache
    /\ now = 0
    /\ tickPending = 0
    /\ sysReady = 0
    /\ sysTimers = EmptyBag
    /\ status = "new"
    /\ collected = {}
    /\ ticks = 0
    /\ file = NoFile
    /\ rest = <<>>
    /\ scan = ScanStart
    /\ loaded = NotLoaded
    /\ frameRate = FrameRateOf(config.FPS)
    /\ rawText = <<>>
    /\ stripped = <<>>
    /\ screen = NoScreen

(* every playback setting, with the tabs off or with the standard and the *)
(* network tab; no frame to MaxFrames frames                               *)
Init ==
    InitWith({MkConfig(l, s, t) : l \in BOOLEAN, s \in BOOLEAN,
                 t \in {NoTabs,
                        [EnableTabs |-> TRUE, TabOrder |-> <<>>,
                         VisibleTabs |-> <<"standard", "network">>,
                         DefaultTab |-> "standard"]}},
             0..MaxFrames)

(* every tab list that holds collecting tabs, looping playback *)
InitCache ==
    InitWith({MkConfig(TRUE, s, t) : s \in BOOLEAN,
                 t \in {AllTabs,
                        [AllTabs EXCEPT !.TabOrder = <<"weather", "hardware", "network">>],
                        [AllTabs EXCEPT !.VisibleTabs = <<"weather">>]}},
             {1})

(* every tab_order, visible_tabs and default_tab, tabs on, one-shot mode *)
InitTabs ==
    InitWith({MkConfig(TRUE, TRUE, [EnableTabs |-> TRUE, TabOrder |-> o,
                                    VisibleTabs |-> v, DefaultTab |-> d]) :
                 o \in { <<>>, <<"weather", "hardware", "network">>, <<"processes">> },
                 v \in { <<>>, <<"network", "weather">>, <<"none">> },
                 d \in { "", "standard", "network", "weather", "Network" }},
             {1})

(* all five tabs, one-shot mode *)
InitView == InitWith({MkConfig(TRUE, TRUE, AllTabs)}, {1})

(* main, before the program starts: a frame file is about to be loaded *)
InitLoad ==
    /\ config = MkConfig(TRUE, FALSE, NoTabs)
    /\ frames = <<>>
    /\ currentFrame = 0
    /\ width = 0
    /\ height = 0
    /\ sysInfo = 1
    /\ tabs = <<>>
    /\ activeTab = 0
    /\ tabData = <<>>
    /\ cursor = <<>>
    /\ cache = NewDataCache
    /\ now = 0
    /\ tickPending = 0
    /\ sysReady = 0
    /\ sysTimers = EmptyBag
    /\ status = "load"
    /\ collected = {}
    /\ ticks = 0
    /\ file \in LoadFiles
    /\ rest = file.runs
    /\ scan = ScanStart
    /\ loaded = NotLoaded
    /\ frameRate = FrameRateOf(config.FPS)
    /\ rawText = <<>>
    /\ stripped = <<>>
    /\ screen = NoScreen

----------------------------------------------------------------------------
(* Actions *)

(* the timers of bag b still to fire at time t *)
Unfired(b, t) == [d \in {x \in BagToSet(b) : x > t} |-> b[d]]

(* Model.Init: the commands batched at start *)
ModelInit ==
    /\ status = "new"
    /\ status' = "running"
    /\ tickPending' = 1
    /\ sysReady' = 1 + (IF config.EnableTabs THEN TabInitCmds(tabs) ELSE 0)
    /\ sysTimers' = SetToBag({now + SysInfoPeriod})
    /\ UNCHANGED <<config, frames, currentFrame, width, height, sysInfo, tabs,
                   activeTab, tabData, cache, now, collected, cursor, ticks,
                   file, rest, scan, loaded,
                   frameRate, rawText, stripped, screen>>

(* time passing; the timers that come due fire and their command runs *)
Advance ==
    /\ status = "running"
    /\ sysReady = 0
    /\ now + TimeStep <= MaxTime
    /\ now' = now + TimeStep
    /\ LET fired == {d \in BagToSet(sysTimers) : d <= now'}
           count == BagCardinality(sysTimers) - BagCardinality(Unfired(sysTimers, now'))
       IN  /\ sysReady' = sysReady + count
           /\ sysTimers' = Unfired(sysTimers, now')
    /\ UNCHANGED <<config, frames, currentFrame, width, height, sysInfo, tabs,
                   activeTab, tabData, cache, tickPending, status, collected,
                   cursor, ticks, file, rest, scan, loaded,
                   frameRate, rawText, stripped, screen>>

(* Model.Update, case tea.WindowSizeMsg *)
HandleWindowSize ==
    /\ status = "running"
    /\ \E sz \in { <<80, 24>> } :
         /\ width' = sz[1]
         /\ height' = sz[2]
    /\ collected' = {}
    /\ UNCHANGED <<config, frames, currentFrame, sysInfo, tabs, activeTab,
                   tabData, cache, now, tickPending, sysReady, sysTimers, status,
                   cursor, ticks, file, rest, scan, loaded,
                   frameRate, rawText, stripped, screen>>

(* Model.Update, case tickMsg *)
HandleTick ==
    /\ status = "running"
    /\ tickPending > 0
    /\ currentFrame' = TickFrame(currentFrame, Len(frames), config.LoopAnimation)
    /\ tickPending' = tickPending - 1 + TickCmds(config.StaticMode)
    /\ collected' = {}
    /\ ticks' = IF ticks < MaxTicks THEN ticks + 1 ELSE ticks
    /\ UNCHANGED <<config, frames, width, height, sysInfo, tabs, activeTab,
                   tabData, cache, now, sysReady, sysTimers, status, cursor,
                   file, rest, scan, loaded,
                   frameRate, rawText, stripped, screen>>

(* the index a digit key jumps to *)
DigitIndex(key) ==
    CASE key = "1" -> 0 [] key = "2" -> 1 [] key = "3" -> 2
      [] key = "4" -> 3 [] key = "5" -> 4

(* the list component: the selected index after a cursor key, in a list   *)
(* of the given number of items                                            *)
ListUpdate(cur, items, key) ==
    IF key \in {"up", "k"}
    THEN IF cur > 0 THEN cur - 1 ELSE cur
    ELSE IF cur < items - 1 THEN cur + 1 ELSE cur

(* faulty variant of ProcessListKey: the key reaches the list of every    *)
(* processes tab, active or not                                            *)
ProcessListKey_AnyTab(cur, data, tbs, active, key) ==
    [i \in 1..Len(tbs) |->
        IF tbs[i] = "processes" THEN ListUpdate(cur[i], data[i].top, key)
        ELSE cur[i]]

(* the up / k / down / j cases: the key is handed to the list of the      *)
(* active tab when that tab is a ProcessesTab                              *)
ProcessListKey(cur, data, tbs, active, key) ==
    IF Len(tbs) > 0 /\ tbs[active + 1] = "processes"
    THEN [cur EXCEPT ![active + 1] = ListUpdate(cur[active + 1], data[active + 1].top, key)]
    ELSE cur

(* faulty variant of KeyTicks: a tab key restarts the animation timer *)
KeyTicks_OnTab(key) == IF key = "tab" THEN 1 ELSE 0

(* the tick commands a key returns: none, every case returns nil or Quit *)
KeyTicks(key) == 0

(* Model.Update, case tea.KeyMsg, for one key *)
KeyStep(key) ==
    /\ status = "running"
    /\ LET n == Len(tabs) IN
       IF config.EnableTabs /\ key \in {"tab", "shift+tab"}
       THEN IF n = 0
            THEN \* integer divide by zero in NextTab / PrevTab
                 /\ status' = "panic"
                 /\ activeTab' = activeTab
                 /\ cursor' = cursor
            ELSE /\ status' = status
                 /\ activeTab' = IF key = "tab" THEN NextTab(activeTab, n)
                                 ELSE PrevTab(activeTab, n)
                 /\ cursor' = cursor
       ELSE IF config.EnableTabs /\ key \in {"1", "2", "3", "4", "5"}
       THEN /\ status' = status
            /\ activeTab' = SwitchTab(activeTab, DigitIndex(key), n)
            /\ cursor' = cursor
       ELSE IF config.EnableTabs /\ key \in {"up", "k", "down", "j"}
       THEN /\ status' = status
            /\ activeTab' = activeTab
            /\ cursor' = ProcessListKey(cursor, tabData, tabs, activeTab, key)
       ELSE IF key \in {"q", "ctrl+c"}
       THEN /\ status' = "quit"
            /\ activeTab' = activeTab
            /\ cursor' = cursor
       ELSE /\ status' = status
            /\ activeTab' = activeTab
            /\ cursor' = cursor
    /\ tickPending' = tickPending + KeyTicks(key)
    /\ collected' = {}
    /\ UNCHANGED <<config, frames, currentFrame, width, height, sysInfo, tabs,
                   tabData, cache, now, sysReady, sysTimers, ticks,
                   file, rest, scan, loaded,
                   frameRate, rawText, stripped, screen>>

HandleKey ==
    \E key \in {"tab", "shift+tab", "1", "2", "3", "4", "5", "up", "k", "down", "j",
                "q", "ctrl+c", "x"} : KeyStep(key)

(* Model.Update, case sysInfoMsg *)
HandleSysInfo ==
    /\ status = "running"
    /\ sysReady > 0
    /\ sysReady' = sysReady - 1
    /\ sysTimers' = IF config.StaticMode THEN sysTimers
                    ELSE sysTimers (+) SetToBag({now + SysInfoPeriod})
    /\ sysInfo' \in {1, 2}
    \* the process collector: ps fails (no count, no entry) or ps works (a
    \* count and two entries)
    /\ \E hb \in BOOLEAN,
          po \in { [blank |-> TRUE, top |-> 0], [blank |-> FALSE, top |-> 2] } :
         LET st == IF config.EnableTabs
                   THEN TabManagerUpdate([cache |-> cache, data |-> tabData, ran |-> {}],
                                         1, tabs, now, hb, po.blank, po.top)
                   ELSE [cache |-> cache, data |-> tabData, ran |-> {}]
         IN  /\ cache' = st.cache
             /\ tabData' = st.data
             /\ collected' = st.ran
    /\ UNCHANGED <<config, frames, currentFrame, width, height, tabs, activeTab,
                   now, tickPending, status, cursor, ticks,
                   file, rest, scan, loaded,
                   frameRate, rawText, stripped, screen>>

(* Model.View; renderTabbedView shows the content of the active tab,      *)
(* which the tab renders from the snapshot it holds                        *)
View ==
    /\ status = "running"
    /\ screen' = IF width = 0 \/ height = 0 THEN <<"Loading...">>
                 ELSE IF config.EnableTabs
                 THEN IF activeTab >= 0 /\ activeTab < Len(tabs)
                      THEN <<"tab", tabs[activeTab + 1], tabData[activeTab + 1]>>
                      ELSE <<"No active tab">>
                 ELSE <<"original", AnimationPanel(frames, currentFrame, config.StaticMode),
                        sysInfo>>
    /\ UNCHANGED <<config, frames, currentFrame, width, height, sysInfo, tabs,
                   activeTab, tabData, cache, now, tickPending, sysReady,
                   sysTimers, status, collected, cursor, ticks, file, rest, scan,
                   loaded, frameRate, rawText, stripped>>

(* the program is not running: the state of the update loop is idle *)
NotStarted ==
    /\ frames = <<>>
    /\ currentFrame = 0
    /\ width = 0
    /\ height = 0
    /\ sysInfo = 1
    /\ tabs = <<>>
    /\ activeTab = 0
    /\ tabData = <<>>
    /\ cursor = <<>>
    /\ cache = NewDataCache
    /\ now = 0
    /\ tickPending = 0
    /\ sysReady = 0
    /\ sysTimers = EmptyBag
    /\ collected = {}
    /\ ticks = 0

(* main is entered: the configuration is loaded and a frame file, if any,  *)
(* is named                                                                *)
InitStart ==
    /\ NotStarted
    \* the fps of a gophetch.json: absent or 0, negative, the default, and
    \* values up to and above 1000
    /\ config \in {[MkConfig(TRUE, FALSE, NoTabs) EXCEPT !.FPS = f] :
                      f \in {0, 0 - 1, 1, DefaultFPS, 60, Second, Second + 1}}
    /\ status = "start"
    /\ file \in StartFiles
    /\ rest = file.runs
    /\ scan = ScanStart
    /\ loaded = NotLoaded
    /\ frameRate = 0
    /\ rawText = <<>>
    /\ stripped = <<>>
    /\ screen = NoScreen

(* LoadFramesFromFile is about to read a file with colour sentinels *)
InitColor ==
    /\ NotStarted
    /\ config = MkConfig(TRUE, FALSE, NoTabs)
    /\ status = "load"
    /\ file \in ColorFiles
    /\ rest = file.runs
    /\ scan = ScanStart
    /\ loaded = NotLoaded
    /\ frameRate = FrameRateOf(config.FPS)
    /\ rawText = <<>>
    /\ stripped = <<>>
    /\ screen = NoScreen

(* processANSISequences is about to be called on a string *)
InitStrip ==
    /\ NotStarted
    /\ config = MkConfig(TRUE, FALSE, NoTabs)
    /\ status = "strip"
    /\ file = NoFile
    /\ rest = <<>>
    /\ scan = ScanStart
    /\ loaded = NotLoaded
    /\ frameRate = FrameRateOf(config.FPS)
    /\ rawText \in SeqsUpTo({ESC, BEL, "[", "]", ";", "1", "m", "x"}, 0, MaxText)
    /\ stripped = <<>>
    /\ screen = NoScreen

(* processANSISequences returns *)
Strip ==
    /\ status = "strip"
    /\ stripped' = processANSISequences(rawText)
    /\ status' = "stripped"
    /\ UNCHANGED <<config, frames, currentFrame, width, height, sysInfo, tabs,
                   activeTab, tabData, cache, now, tickPending, sysReady,
                   sysTimers, collected, cursor, ticks, file, rest, scan, loaded,
                   frameRate, rawText, screen>>

(* LoadFramesFromFile: the scan loop takes the next run of lines *)
ScanFile ==
    /\ status = "load"
    /\ file.format = "frames"
    /\ StatError(file.stat) = NoError
    /\ Len(rest) > 0
    /\ scan.err = NoError
    /\ scan' = ScanRun(scan, rest[1])
    /\ rest' = Tail(rest)
    /\ UNCHANGED <<config, frames, currentFrame, width, height, sysInfo, tabs,
                   activeTab, tabData, cache, now, tickPending, sysReady,
                   sysTimers, status, collected, cursor, ticks, file, loaded,
                   frameRate, rawText, stripped, screen>>

(* LoadFramesFromFile returns, at the end of the file or on an error *)
LoadDelimited ==
    /\ status = "load"
    /\ file.format = "frames"
    /\ StatError(file.stat) # NoError \/ Len(rest) = 0 \/ scan.err # NoError
    /\ loaded' = Loaded(Checked(file.stat, FileReturn(scan)))
    /\ status' = "loaded"
    /\ UNCHANGED <<config, frames, currentFrame, width, height, sysInfo, tabs,
                   activeTab, tabData, cache, now, tickPending, sysReady,
                   sysTimers, collected, cursor, ticks, file, rest, scan,
                   frameRate, rawText, stripped, screen>>

(* LoadFramesFromCastFile: the event loop takes the next run of lines *)
ScanCast ==
    /\ status = "load"
    /\ file.format = "cast"
    /\ StatError(file.stat) = NoError
    /\ file.header = "ok"
    /\ Len(rest) > 0
    /\ scan.err = NoError
    /\ scan' = ScanEventRun(scan, rest[1])
    /\ rest' = Tail(rest)
    /\ UNCHANGED <<config, frames, currentFrame, width, height, sysInfo, tabs,
                   activeTab, tabData, cache, now, tickPending, sysReady,
                   sysTimers, status, collected, cursor, ticks, file, loaded,
                   frameRate, rawText, stripped, screen>>

(* LoadFramesFromCastFile returns: on a bad header, at the end of the     *)
(* file or on an error                                                     *)
LoadCast ==
    /\ status = "load"
    /\ file.format = "cast"
    /\ \/ StatError(file.stat) # NoError
       \/ file.header # "ok"
       \/ Len(rest) = 0
       \/ scan.err # NoError
    /\ loaded' = Loaded(Checked(file.stat, CastReturn(file.header, scan)))
    /\ status' = "loaded"
    /\ UNCHANGED <<config, frames, currentFrame, width, height, sysInfo, tabs,
                   activeTab, tabData, cache, now, tickPending, sysReady,
                   sysTimers, collected, cursor, ticks, file, rest, scan,
                   frameRate, rawText, stripped, screen>>

(* faulty variant of StartFrames: after a failed load the model is given  *)
(* a frame all the same                                                    *)
StartFrames_NoFallback(res) ==
    IF res.err # NoError THEN FrameSeq(1) ELSE FrameSeq(NumLoaded(res.frames))

(* main: the frames the model is created with: none after a failed load,  *)
(* else those the parser returned                                          *)
StartFrames(res) ==
    IF res.err # NoError THEN <<>> ELSE FrameSeq(NumLoaded(res.frames))

(* main, line 2807: the frame rate is computed from config.FPS; dividing   *)
(* by zero panics                                                          *)
ComputeFrameRate ==
    /\ status = "start"
    /\ IF config.FPS = 0
       THEN status' = "panic" /\ frameRate' = frameRate
       ELSE status' = "load" /\ frameRate' = FrameRateOf(config.FPS)
    /\ UNCHANGED <<config, frames, currentFrame, width, height, sysInfo, tabs,
                   activeTab, tabData, cache, now, tickPending, sysReady,
                   sysTimers, collected, cursor, ticks, file, rest, scan, loaded,
                   rawText, stripped, screen>>

(* main, after the frames are loaded or no file is named: the model is    *)
(* created and handed to tea.NewProgram                                    *)
StartProgram ==
    /\ status = "loaded" \/ (status = "load" /\ file.format = "none")
    /\ frames' = StartFrames(loaded)
    /\ tabs' = IF config.EnableTabs THEN TabList(config) ELSE <<>>
    /\ activeTab' = IF config.EnableTabs THEN DefaultActive(config, TabList(config)) ELSE 0
    /\ tabData' = [i \in 1..Len(tabs') |->
                      IF tabs'[i] = "processes" THEN ZeroProcessInfo ELSE ZeroInfo]
    /\ cursor' = [i \in 1..Len(tabs') |-> 0]
    /\ status' = "new"
    /\ UNCHANGED <<config, currentFrame, width, height, sysInfo, cache, now,
                   tickPending, sysReady, sysTimers, collected, ticks, file,
                   rest, scan, loaded, frameRate, rawText, stripped, screen>>

NextLoad ==
    \/ ScanFile
    \/ LoadDelimited
    \/ ScanCast
    \/ LoadCast

Next ==
    \/ ModelInit
    \/ Advance
    \/ HandleWindowSize
    \/ HandleTick
    \/ HandleKey
    \/ HandleSysInfo

Spec == Init /\ [][Next]_vars

SpecCache == InitCache /\ [][Next]_vars

SpecTabs == InitTabs /\ [][Next]_vars

(* the update loop and the renderer, with all five tabs *)
NextView ==
    \/ Next
    \/ View

SpecView == InitView /\ [][NextView]_vars

SpecLoad == InitLoad /\ [][NextLoad]_vars

NextColor ==
    \/ ScanFile
    \/ LoadDelimited

SpecColor == InitColor /\ [][NextColor]_vars

(* main from its first line to the running program, and the animation    *)
(* of the running program                                                  *)
NextStart ==
    \/ ComputeFrameRate
    \/ NextLoad
    \/ StartProgram
    \/ ModelInit
    \/ HandleTick

SpecStart == InitStart /\ [][NextStart]_vars

(* main runs on to tea.NewProgram, and the program calls Model.Init *)
FairStart ==
    /\ SpecStart
    /\ WF_vars(ComputeFrameRate)
    /\ WF_vars(NextLoad)
    /\ WF_vars(StartProgram)
    /\ WF_vars(ModelInit)

SpecStrip == InitStrip /\ [][Strip]_vars

----------------------------------------------------------------------------
(* Properties *)

NumFrames == Len(frames)

(* the time to live of a category's snapshot *)
TTL(cat) == IF cat = "weather" THEN WeatherInterval ELSE UpdateInterval

(* C1: without looping, a tick raises currentFrame by exactly one while it *)
(* is below the last index, and leaves it at the last index once there;    *)
(* it never wraps to 0 and never exceeds the last index.                   *)
C1_NonLoopFreezes ==
    [][(HandleTick /\ ~config.LoopAnimation /\ NumFrames >= 1) =>
          /\ currentFrame <= NumFrames - 1
          /\ currentFrame' = IF currentFrame < NumFrames - 1
                             THEN currentFrame + 1
                             ELSE NumFrames - 1]_vars

C1_Witness ==
    /\ ~config.LoopAnimation
    /\ NumFrames = 3
    /\ ticks = 4
    /\ currentFrame = 2

(* C2: with looping, every tick sets currentFrame to (currentFrame+1) mod  *)
(* N; starting from 0 the index after k ticks is k mod N, so N ticks       *)
(* return to the starting index.                                           *)
C2_LoopIsCircular ==
    /\ []((config.LoopAnimation /\ NumFrames >= 1 /\ ticks < MaxTicks) =>
             currentFrame = ticks % NumFrames)
    /\ [][(HandleTick /\ config.LoopAnimation /\ NumFrames >= 1) =>
             currentFrame' = (currentFrame + 1) % NumFrames]_vars

C2_Witness ==
    /\ config.LoopAnimation
    /\ NumFrames = 3
    /\ ticks = 4
    /\ currentFrame = 1

(* C3: currentFrame is a valid index whenever frames is non-empty; with no *)
(* frames currentFrame stays 0 and the view shows the rain animation,      *)
(* never a frame of the list.                                              *)
C3_IndexInRange ==
    /\ NumFrames > 0 =>
          /\ currentFrame >= 0
          /\ currentFrame < NumFrames
          /\ AnimationPanel(frames, currentFrame, config.StaticMode)
                = <<"frame", frames[currentFrame + 1]>>
    /\ NumFrames = 0 =>
          /\ currentFrame = 0
          /\ AnimationPanel(frames, currentFrame, config.StaticMode)
                = <<"rain", ~config.StaticMode>>

C3_Witness ==
    /\ NumFrames = 0
    /\ ticks >= 2
    /\ width > 0
    /\ sysReady = 0
    /\ now > 0
    /\ currentFrame = 0

(* C4: in static mode a handled tick returns no tick command: the tick     *)
(* that Model.Init schedules is the only one ever handled and none is      *)
(* pending after it.                                                       *)
C4_StaticStopsTicking ==
    config.StaticMode =>
        /\ tickPending <= 1
        /\ ticks <= 1
        /\ (ticks = 1 => tickPending = 0)

C4_Witness ==
    /\ config.StaticMode
    /\ status = "running"
    /\ ticks = 1
    /\ tickPending = 0

(* C5: in static mode with two or more frames currentFrame keeps its       *)
(* initial value 0.                                                        *)
C5_StaticFrameFixed ==
    (config.StaticMode /\ NumFrames >= 2) => currentFrame = 0

(* C6: a handler that re-collects exactly one category leaves the          *)
(* snapshot of every other category unchanged, and leaves unchanged        *)
(* whether any other category is due for refresh.                          *)
C6_RefreshTouchesOneCategory ==
    [][\A x \in Categories :
          (HandleSysInfo /\ collected' = {x}) =>
              \A d \in Categories \ {x} :
                  /\ Snapshot(cache', d) = Snapshot(cache, d)
                  /\ Stale(cache', d, now') <=> Stale(cache, d, now)]_vars

(* C7: the refresh check of a category is true exactly when more than the  *)
(* category's TTL has passed since that category was last collected, or    *)
(* the category holds no data.                                             *)
C7_DueIffOwnTTLElapsed ==
    \A cat \in Categories :
        Stale(cache, cat, now) <=>
            \/ Since(now, Snapshot(cache, cat).asOf) > TTL(cat)
            \/ Snapshot(cache, cat).blank

(* C8: when not in static mode and with all five tabs, a refresh message   *)
(* that arrives more than a category's TTL after that category was last    *)
(* collected collects it again.                                            *)
C8_NoCategoryStarved ==
    [][(HandleSysInfo /\ ~config.StaticMode /\ (\A cat \in Categories : contains(tabs, cat))) =>
          \A cat \in Categories :
              Since(now, Snapshot(cache, cat).asOf) > TTL(cat) =>
                  Snapshot(cache', cat).asOf = now]_vars

(* C9: no handler of the update loop runs a collector itself.              *)
C9_CollectorsOffTheLoop == collected = {}

(* C10: on a non-empty tab list of length L the tab key moves activeTab to *)
(* (activeTab+1) mod L and shift+tab to (activeTab-1) mod L; PrevTab       *)
(* undoes NextTab and L times NextTab is the identity.                     *)
RECURSIVE NextTabTimes(_, _, _)
NextTabTimes(a, n, k) == IF k = 0 THEN a ELSE NextTabTimes(NextTab(a, n), n, k - 1)

C10_TabNavigationCircular ==
    /\ []((config.EnableTabs /\ Len(tabs) >= 1) =>
             /\ PrevTab(NextTab(activeTab, Len(tabs)), Len(tabs)) = activeTab
             /\ NextTab(PrevTab(activeTab, Len(tabs)), Len(tabs)) = activeTab
             /\ NextTabTimes(activeTab, Len(tabs), Len(tabs)) = activeTab)
    /\ [][(config.EnableTabs /\ Len(tabs) >= 1) =>
             /\ KeyStep("tab") => activeTab' = (activeTab + 1) % Len(tabs)
             /\ KeyStep("shift+tab") => activeTab' = (activeTab - 1) % Len(tabs)]_vars

C10_Witness ==
    /\ config.EnableTabs
    /\ Len(tabs) = 5
    /\ DefaultActive(config, tabs) = 0
    /\ activeTab = 4

NavKeys   == {"tab", "shift+tab"}
DigitKeys == {"1", "2", "3", "4", "5"}
ArrowKeys == {"up", "k", "down", "j"}

(* C11: with tabs enabled and an empty tab list, the tab and shift+tab     *)
(* keys leave activeTab as it is and the update completes normally.        *)
C11_EmptyNavigationNoOp ==
    [][\A key \in NavKeys :
         (config.EnableTabs /\ Len(tabs) = 0 /\ KeyStep(key)) =>
             (activeTab' = activeTab /\ status' = "running")]_vars

(* C12: whenever the tab list is not empty, activeTab is an index of it,   *)
(* whatever the configuration and whatever keys were pressed.              *)
C12_ActiveTabInRange ==
    (config.EnableTabs /\ Len(tabs) > 0) =>
        (activeTab >= 0 /\ activeTab < Len(tabs))

C12_Witness ==
    /\ status = "running"
    /\ Len(tabs) = 2
    /\ DefaultActive(config, tabs) = 0
    /\ activeTab = 1

(* C13: SwitchTab(i) sets activeTab to i when 0 <= i < len(tabs) and       *)
(* leaves it as it is otherwise; a digit key beyond the number of tabs     *)
(* changes nothing.                                                        *)
C13_SwitchTabFrame ==
    /\ [](\A i \in (0 - 1)..5 :
            SwitchTab(activeTab, i, Len(tabs)) =
                IF 0 <= i /\ i < Len(tabs) THEN i ELSE activeTab)
    /\ [][\A key \in DigitKeys :
            (config.EnableTabs /\ KeyStep(key)) =>
                /\ activeTab' = IF DigitIndex(key) < Len(tabs)
                                THEN DigitIndex(key) ELSE activeTab
                /\ tabs' = tabs
                /\ status' = status]_vars

C13_Witness ==
    /\ status = "running"
    /\ Len(tabs) = 3
    /\ DefaultActive(config, tabs) = 0
    /\ activeTab = 2

(* C14: at startup the tab named by default_tab, written in lower case as  *)
(* documented, is the active tab whenever it is in the tab list.           *)
C14_DefaultTabActive ==
    (status = "new" /\ config.EnableTabs /\ contains(tabs, config.DefaultTab)) =>
        tabs[activeTab + 1] = config.DefaultTab

(* C15: up, k, down and j never change activeTab; they move the selected   *)
(* index of the process list only when the active tab is the processes     *)
(* tab and change nothing on any other tab.                                *)
C15_ArrowKeysFrame ==
    [][\A key \in ArrowKeys :
         KeyStep(key) =>
             /\ activeTab' = activeTab
             /\ tabs' = tabs
             /\ tabData' = tabData
             /\ \A i \in 1..Len(tabs) :
                    IF config.EnableTabs /\ i = activeTab + 1 /\ tabs[i] = "processes"
                    THEN cursor'[i] = ListUpdate(cursor[i], tabData[i].top, key)
                    ELSE cursor'[i] = cursor[i]]_vars

C15_Witness ==
    /\ Len(tabs) = 5
    /\ tabs[4] = "processes"
    /\ activeTab = 3
    /\ cursor[4] = 1

----------------------------------------------------------------------------
(* Properties of the parsers *)

(* a run of one line that is not a sentinel *)
IsContentUnit(u) == Len(u) = 1 /\ u[1] # FrameSentinel /\ ~HasFramePrefix(u[1])

(* the scan in one step agrees with the scan line by line, on the runs    *)
(* short enough to compare and from every state the scan of the file's    *)
(* runs passes through                                                     *)
ScanManyIsScanRepeat ==
    /\ file.format = "frames" =>
          \A i \in 0..Len(file.runs) : \A u \in LineUnits : \A n \in 1..3 :
              LET st == ScanRuns(ScanStart, SubSeq(file.runs, 1, i))
              IN  ScanMany(st, u, n) = ScanRepeat(st, u, n)
    /\ file.format = "cast" =>
          \A i \in 0..Len(file.runs) : \A r \in CastRuns : \A n \in 1..3 :
              LET st == ScanEvents(ScanStart, SubSeq(file.runs, 1, i))
              IN  (r.ev.kind # "o" \/ r.ev.data = <<>>) =>
                      ScanEventMany(st, r.ev, n) = ScanEventRepeat(st, r.ev, n)

(* the number of lines of a file *)
RECURSIVE RunLines(_)
RunLines(runs) ==
    IF Len(runs) = 0 THEN 0 ELSE runs[1].n * Len(runs[1].unit) + RunLines(Tail(runs))

RECURSIVE EventLines(_)
EventLines(runs) == IF Len(runs) = 0 THEN 0 ELSE runs[1].n + EventLines(Tail(runs))

FileLines == IF file.format = "cast" THEN 1 + EventLines(file.runs)
             ELSE RunLines(file.runs)

(* a delimited file of non-empty blocks: it has no colour sentinel, and    *)
(* every sentinel line comes right after a line of a block                 *)
WellFormed(runs) ==
    \A i \in 1..Len(runs) :
        /\ ~HasFramePrefix(runs[i].unit[1])
        /\ runs[i].unit = <<FrameSentinel>> =>
               (runs[i].n = 1 /\ i > 1 /\ IsContentUnit(runs[i - 1].unit))

(* its blocks, in file order, each as a text: a sentinel closes the block  *)
(* gathered so far                                                         *)
RECURSIVE Blocks(_, _, _)
Blocks(runs, done, block) ==
    IF Len(runs) = 0
    THEN IF Len(block) > 0 THEN AppendFrame(done, block, DefaultColor, 1) ELSE done
    ELSE LET r == runs[1] IN
         IF IsContentUnit(r.unit)
         THEN Blocks(Tail(runs), done, AppendLines(block, r.unit[1], r.n))
         ELSE IF Len(r.unit) = 2
         THEN Blocks(Tail(runs),
                     AppendFrame(AppendFrame(done, AppendLines(block, r.unit[1], 1),
                                             DefaultColor, 1),
                                 AppendLines(<<>>, r.unit[1], 1), DefaultColor, r.n - 1),
                     <<>>)
         ELSE Blocks(Tail(runs), AppendFrame(done, block, DefaultColor, 1), <<>>)

(* the number of blocks: one for each sentinel line, and one more when     *)
(* the file ends inside a block                                            *)
RECURSIVE SentinelLines(_)
SentinelLines(runs) ==
    IF Len(runs) = 0 THEN 0
    ELSE (IF IsContentUnit(runs[1].unit) THEN 0 ELSE runs[1].n)
         + SentinelLines(Tail(runs))

BlockCount(runs) ==
    SentinelLines(runs)
    + (IF Len(runs) > 0 /\ IsContentUnit(runs[Len(runs)].unit) THEN 1 ELSE 0)

ParsedAsBlocks ==
    /\ loaded.err = NoError
    /\ NumLoaded(loaded.frames) = BlockCount(file.runs)
    /\ loaded.frames = Blocks(file.runs, <<>>, <<>>)
    /\ \A i \in 1..Len(loaded.frames) : \A j \in 1..Len(loaded.frames[i].content) :
           loaded.frames[i].content[j].line # FrameSentinel

C17_NeverEmptySuccess ==
    loaded.done =>
        /\ loaded.err = NoError => NumLoaded(loaded.frames) >= 1
        /\ loaded.err # NoError => loaded.frames = <<>>

C17_Witness ==
    /\ loaded.done
    /\ file.format = "cast"
    /\ file.header = "ok"
    /\ \E i \in 1..Len(file.runs) : file.runs[i].ev.kind = "o"
    /\ loaded.err = ErrNoFrames

C18_WitnessAtLimit ==
    /\ loaded.done
    /\ file.format = "frames"
    /\ FileLines = MaxLineCount
    /\ loaded.err = NoError

(* C19: a recording of more than 100,000 lines fails with the line limit   *)
(* error, whatever kinds of lines they are.                                *)
C19_CastLineLimit ==
    (loaded.done /\ file.format = "cast" /\ file.header = "ok"
                 /\ EventLines(file.runs) > MaxLineCount) =>
        loaded.err = ErrLines

(* C20: an event whose kind is not "o" adds no text to any frame and       *)
(* triggers no cut: the frames returned are those of the recording with    *)
(* these events taken out.                                                 *)
C20_OnlyOutputEvents ==
    (loaded.done /\ file.format = "cast" /\ loaded.err = NoError) =>
        loaded.frames =
            LoadFramesFromCastFile(file.header,
                                   SelectSeq(file.runs, LAMBDA r : r.ev.kind = "o")).frames

C20_Witness ==
    /\ loaded.done
    /\ file.format = "cast"
    /\ loaded.err = NoError
    /\ \E i \in 1..Len(file.runs) :
          file.runs[i].ev.kind = "i" /\ file.runs[i].ev.data # <<>>
    /\ \E i \in 1..Len(file.runs) : file.runs[i].ev.kind = "o"

(* C21: every frame of the recording parser has a stripped, trimmed text   *)
(* of more than 5 characters, whether it was cut at an interval or at the  *)
(* end of the input.                                                       *)
C21_FramesLongerThanFive ==
    file.format = "cast" =>
        /\ \A i \in 1..Len(scan.frames) :
               Len(TrimSpace(scan.frames[i].content)) > MinContent
        /\ \A i \in 1..Len(loaded.frames) :
               Len(TrimSpace(loaded.frames[i].content)) > MinContent

(* C22: stripping is idempotent: stripping the result of a strip gives    *)
(* that result again, for every input.                                     *)
C22_StripIdempotent ==
    status = "stripped" => processANSISequences(stripped) = stripped

(* C23: the result of a strip holds no ESC character and no bell           *)
(* character, for every input.                                             *)
C23_NoEscapeNoBell ==
    status = "stripped" =>
        \A i \in 1..Len(stripped) : stripped[i] \notin {ESC, BEL}

(* C24: a failed load of the frame file is never fatal: whatever the      *)
(* reason, the program goes on with no frames, the view shows the rain     *)
(* animation, and the update loop is started.                              *)
C24_LoadFailureFallsBack ==
    /\ []((loaded.done /\ loaded.err # NoError) =>
            /\ status # "panic"
            /\ status \in {"new", "running", "quit"} =>
                  /\ frames = <<>>
                  /\ AnimationPanel(frames, currentFrame, config.StaticMode)[1] = "rain")
    /\ (loaded.done /\ loaded.err # NoError) ~> (status = "running")

C24_Witness ==
    /\ loaded.done
    /\ loaded.err = "is a directory, not a file"
    /\ status = "running"
    /\ ticks > 0

(* C30: for every fps value of a loaded configuration the frame rate is    *)
(* computed without failing and is greater than zero.                      *)
C30_FrameRatePositive ==
    status # "start" => (status # "panic" /\ frameRate > 0)

(* the non-empty blocks of a file of single lines, each tagged by the     *)
(* line that ends it: with the table entry of the name on the line,       *)
(* whatever its case, else with the default                                *)
RECURSIVE TaggedBlocks(_, _, _)
TaggedBlocks(runs, done, block) ==
    IF Len(runs) = 0
    THEN IF Len(block) > 0 THEN AppendFrame(done, block, DefaultColor, 1) ELSE done
    ELSE LET line  == runs[1].unit[1]
             match == IF line = FrameSentinel THEN {}
                      ELSE {k \in KnownColors : ToUpper(ColorName(line)) = k}
             tag   == IF match = {} THEN DefaultColor
                      ELSE ColorCode(CHOOSE k \in match : TRUE)
         IN
         IF IsContentUnit(runs[1].unit)
         THEN TaggedBlocks(Tail(runs), done, AppendLines(block, line, 1))
         ELSE IF Len(block) > 0
         THEN TaggedBlocks(Tail(runs), AppendFrame(done, block, tag, 1), <<>>)
         ELSE TaggedBlocks(Tail(runs), done, <<>>)

(* C26: a non-empty block ended by a colour sentinel becomes a frame of    *)
(* the colour that the table has for the name, matched whatever its case;  *)
(* a name the table does not have gives the default colour and no error;   *)
(* a block ended by the plain sentinel or by the end of the file gets the  *)
(* default colour.                                                         *)
C26_SentinelTagsItsBlock ==
    (loaded.done /\ file \in ColorFiles) =>
        LET expected == TaggedBlocks(file.runs, <<>>, <<>>)
        IN  IF Len(expected) = 0 THEN loaded.err = ErrNoFrames
            ELSE loaded.err = NoError /\ loaded.frames = expected

C26_Witness ==
    /\ loaded.done
    /\ file.runs = <<RunOf(<<"a">>, 1), RunOf(<<ColorSentinel("red")>>, 1),
                     RunOf(<<"a">>, 1), RunOf(<<FrameSentinel>>, 1)>>
    /\ Len(loaded.frames) = 2
    /\ loaded.frames[1].color = "196"
    /\ loaded.frames[2].color = DefaultColor

(* C25: at an output event a cut is made exactly when its timestamp is at *)
(* least 0.1 s after that of the previous cut (0 at the start); the text   *)
(* of the output events since the previous cut, in their order, is the     *)
(* next candidate.                                                         *)
C25_CutExactlyAtInterval ==
    [][(ScanCast /\ rest[1].n = 1 /\ rest[1].ev.kind = "o" /\ scan'.err = NoError) =>
          LET ev == rest[1].ev
              candidate == scan.cur \o ev.data
          IN  IF ev.ts - scan.last >= FrameInterval
              THEN /\ scan'.last = ev.ts
                   /\ scan'.cur = <<>>
                   /\ scan'.frames \in
                         {scan.frames,
                          AppendFrame(scan.frames, processANSISequences(candidate),
                                      DefaultColor, 1)}
              ELSE /\ scan'.last = scan.last
                   /\ scan'.cur = candidate
                   /\ scan'.frames = scan.frames]_vars

(* C27: when a system-info message has been handled, and from then on,    *)
(* every collecting tab holds the snapshot that the cache holds for its    *)
(* category; rendering changes neither the snapshots of the cache nor its  *)
(* refresh timestamp.                                                      *)
C27_TabsShowCache ==
    /\ [][HandleSysInfo =>
             \A i \in 1..Len(tabs) :
                 tabs[i] \in Categories => tabData'[i] = Snapshot(cache', tabs[i])]_vars
    /\ [](\A i \in 1..Len(tabs) :
             tabs[i] \in Categories => tabData[i] = Snapshot(cache, tabs[i]))
    /\ [][View => cache' = cache]_vars

C27_Witness ==
    /\ screen[1] = "tab"
    /\ screen[2] = "hardware"
    /\ screen[3] = cache.hardwareInfo
    /\ screen[3].asOf = SysInfoPeriod
    /\ cache.networkInfo.asOf = 0

(* the system-info messages on their way or on a timer *)
PendingSysInfo == sysReady + BagCardinality(sysTimers)

(* the system-info commands of Model.Init: two of the model, and one for   *)
(* each tab that has an Init command                                       *)
IssuedByInit == 2 + (IF config.EnableTabs THEN TabInitCmds(tabs) ELSE 0)

(* C28: outside static mode a handled tick schedules exactly one tick, so  *)
(* at most one tick is pending; a handled system-info message schedules    *)
(* exactly one successor, so no more system-info messages are pending      *)
(* than Init issued; in static mode their number never grows.              *)
C28_TimersDoNotMultiply ==
    /\ [](tickPending <= 1)
    /\ [](PendingSysInfo <= IssuedByInit)
    /\ [][(HandleTick /\ ~config.StaticMode) => tickPending' = 1]_vars
    /\ [][(HandleSysInfo /\ ~config.StaticMode) => PendingSysInfo' = PendingSysInfo]_vars
    /\ [][(HandleSysInfo /\ config.StaticMode) => PendingSysInfo' = PendingSysInfo - 1]_vars
    /\ [][(status = "running" /\ config.StaticMode) =>
             (PendingSysInfo' <= PendingSysInfo /\ tickPending' <= tickPending)]_vars

C28_Witness ==
    /\ ~config.StaticMode
    /\ config.EnableTabs
    /\ now >= 2 * SysInfoPeriod
    /\ ticks >= 2
    /\ tickPending = 1
    /\ PendingSysInfo = IssuedByInit

(* C29: a tick changes at most currentFrame: it leaves activeTab, the      *)
(* cache and sysInfo as they are; a navigation key leaves currentFrame and *)
(* the cache as they are and schedules no command; a window-size message   *)
(* changes only width and height.                                          *)
C29_MessagesChangeTheirOwnPart ==
    [][/\ HandleTick =>
            UNCHANGED <<activeTab, cache, sysInfo, tabs, tabData, cursor, width,
                        height, frames, sysReady, sysTimers>>
       /\ (\E key \in NavKeys \cup DigitKeys \cup ArrowKeys : KeyStep(key)) =>
            UNCHANGED <<currentFrame, cache, tickPending, sysReady, sysTimers,
                        frames, sysInfo, width, height>>
       /\ HandleWindowSize =>
            UNCHANGED <<currentFrame, frames, activeTab, cache, sysInfo, tabs,
                        tabData, cursor, tickPending, sysReady, sysTimers>>]_vars

C29_Witness ==
    /\ currentFrame = 2
    /\ activeTab = 1
    /\ width > 0
    /\ cache.networkInfo.asOf >= 0

====
